---- MODULE Spec2Model ----
(***************************************************************************)
(* State machine of iRNAP (src/model/initial_transcription.py): one RNA    *)
(* polymerase object during initial transcription, its constructor, its    *)
(* consistency check and its transition methods.  A method call is one     *)
(* step.  A call either returns or raises (AssertionError from an assert   *)
(* of SanityCheck, ZeroDivisionError from the 1/0 of a rejected call); a   *)
(* raise leaves the object with whatever assignments were made before it.  *)
(***************************************************************************)
EXTENDS Integers, Sequences, FiniteSets, TLC

\* ---- bounds of the exploration ----
MaxRNA == 11            \* GrowRNA is not called once RNA_length reaches this
MaxBacktrack == 2       \* Backtrack is not called once iplus1_site reaches -MaxBacktrack
MaxInitRNA == 4         \* largest rna_length handed to the constructor
MaxInitFree == 2        \* largest free_5prime_RNA_length handed to the constructor
SmallMaxDuplex == 1     \* a non-default max_duplex_length handed to the constructor
MaxInitSite == 3        \* largest iplus1_site handed to the constructor
MaxItsLen == 3          \* longest sequence handed to the active-site lookups

\* ---- defaults of __init__ ----
DefaultRNALength == 2
DefaultIplus1Site == 2
DefaultDuplexLength == 2
DefaultScrunched == 0
DefaultFree == 0
DefaultMaxDuplex == 10

VARIABLES
  myRNAP,    \* the fields of the iRNAP object
  op,        \* the method called last
  outcome,   \* "completed" or the exception the last call raised
  ret,       \* what the last call returned ("None" when nothing)
  before,    \* the fields right before the last call
  prev,      \* the call before the last one: its op, outcome and before
  arg,       \* the sequence handed to the last call (empty when it takes none)
  grown      \* TRUE once GrowRNA has been called on the object

vars == <<myRNAP, op, outcome, ret, before, prev, arg, grown>>

\* the object the constructor builds with its default arguments
DefaultState ==
  [RNA_length |-> DefaultRNALength,
   pre_translocated |-> TRUE,
   post_translocated |-> FALSE,
   paused |-> FALSE,
   backtracked |-> FALSE,
   iplus1_site |-> DefaultIplus1Site,
   RNADNA_duplex_length |-> DefaultDuplexLength,
   scrunched_DNA_size |-> DefaultScrunched,
   free_5prime_RNA_length |-> DefaultFree,
   max_duplex_length |-> DefaultMaxDuplex]

\* the argument tuples handed to the constructor
ConstructorArgs ==
  [RNA_length : 1..MaxInitRNA,
   pre_translocated : BOOLEAN,
   post_translocated : BOOLEAN,
   paused : BOOLEAN,
   backtracked : BOOLEAN,
   iplus1_site : DefaultIplus1Site..MaxInitSite,
   RNADNA_duplex_length : 1..MaxInitRNA,
   scrunched_DNA_size : {DefaultScrunched},
   free_5prime_RNA_length : 0..MaxInitFree,
   max_duplex_length : {SmallMaxDuplex, DefaultMaxDuplex}]

\* SanityCheck: TRUE iff no assert fails
SanityCheck(s) ==
  /\ s.backtracked =>
       (s.pre_translocated = FALSE /\ s.post_translocated = FALSE /\ s.paused = FALSE)
  /\ s.paused =>
       (s.pre_translocated = FALSE /\ s.post_translocated = FALSE /\ s.backtracked = FALSE)
  /\ s.post_translocated =>
       (s.pre_translocated = FALSE /\ s.backtracked = FALSE /\ s.paused = FALSE)
  /\ s.pre_translocated =>
       (s.post_translocated = FALSE /\ s.backtracked = FALSE /\ s.paused = FALSE)
  /\ s.RNA_length >= s.RNADNA_duplex_length
  /\ s.scrunched_DNA_size < s.RNA_length
  /\ s.free_5prime_RNA_length < s.RNA_length
  /\ (s.free_5prime_RNA_length > 0 =>
        s.free_5prime_RNA_length = s.RNA_length - s.RNADNA_duplex_length)
  /\ (s.RNADNA_duplex_length > s.max_duplex_length =>
        s.free_5prime_RNA_length > 0)

\* the two ways a call ends
Raise(s, e) == [self |-> s, outcome |-> e, ret |-> "None"]
Return(s, r) == [self |-> s, outcome |-> "completed", ret |-> r]

\* the closing self.SanityCheck() of a transition
Closing(t) == IF SanityCheck(t) THEN Return(t, "None") ELSE Raise(t, "AssertionError")

PyBool(b) == IF b THEN "True" ELSE "False"

\* the transcribed-region strings handed to the lookups: "A", "AT", "ATG", ...
Bases == <<"A", "T", "G", "C">>
ItsOfLen(n) == [i \in 1..n |-> Bases[((i - 1) % 4) + 1]]
ItsInputs == {ItsOfLen(n) : n \in 1..MaxItsLen}
NoArg == <<>>

\* its[i] of a Python string: a negative index counts from the end, an index
\* outside -len..len-1 raises IndexError
InRange(its, i) == -Len(its) <= i /\ i < Len(its)
PyIndex(its, i) == IF i >= 0 THEN its[i + 1] ELSE its[Len(its) + i + 1]

GetActiveSiteDinucleotide(s, its) ==
  IF InRange(its, s.iplus1_site - 1) /\ InRange(its, s.iplus1_site)
  THEN Return(s, PyIndex(its, s.iplus1_site - 1) \o PyIndex(its, s.iplus1_site))
  ELSE Raise(s, "IndexError")

\* the class has no attribute get_active_site_dinucleotide
GetActiveSiteNucleotide(s, its) == Raise(s, "AttributeError")

\* ReverseTranslocate that also steps the +1 site back
ReverseTranslocate_MovesSite(s) ==
  IF ~SanityCheck(s) THEN Raise(s, "AssertionError")
  ELSE IF s.pre_translocated THEN Raise(s, "ZeroDivisionError")
  ELSE Closing([s EXCEPT !.pre_translocated = TRUE, !.post_translocated = FALSE,
                         !.iplus1_site = @ - 1])

ReverseTranslocate(s) ==
  IF ~SanityCheck(s) THEN Raise(s, "AssertionError")
  ELSE IF s.pre_translocated THEN Raise(s, "ZeroDivisionError")
  ELSE Closing([s EXCEPT !.pre_translocated = TRUE, !.post_translocated = FALSE])

\* Translocate that also advances the +1 site
Translocate_MovesSite(s) ==
  IF ~SanityCheck(s) THEN Raise(s, "AssertionError")
  ELSE IF s.post_translocated THEN Raise(s, "ZeroDivisionError")
  ELSE Closing([s EXCEPT !.pre_translocated = FALSE, !.post_translocated = TRUE,
                         !.iplus1_site = @ + 1])

Translocate(s) ==
  IF ~SanityCheck(s) THEN Raise(s, "AssertionError")
  ELSE IF s.post_translocated THEN Raise(s, "ZeroDivisionError")
  ELSE Closing([s EXCEPT !.pre_translocated = FALSE, !.post_translocated = TRUE])

\* Pause without the test for pre_translocated
Pause_SkipsPreCheck(s) ==
  IF ~SanityCheck(s) THEN Raise(s, "AssertionError")
  ELSE IF s.paused THEN Raise(s, "ZeroDivisionError")
  ELSE Closing([s EXCEPT !.paused = TRUE, !.pre_translocated = FALSE])

Pause(s) ==
  IF ~SanityCheck(s) THEN Raise(s, "AssertionError")
  ELSE IF s.paused THEN Raise(s, "ZeroDivisionError")
  ELSE IF s.pre_translocated
       THEN Closing([s EXCEPT !.paused = TRUE, !.pre_translocated = FALSE])
       ELSE Raise(s, "ZeroDivisionError")

\* CanBackTrack that looks at paused only
CanBackTrack_PausedOnly(s) ==
  IF ~SanityCheck(s) THEN Raise(s, "AssertionError")
  ELSE Return(s, PyBool(s.paused))

CanBackTrack(s) ==
  IF ~SanityCheck(s) THEN Raise(s, "AssertionError")
  ELSE Return(s, PyBool(s.paused \/ s.backtracked))

\* Backtrack that never shortens the duplex
Backtrack_KeepsDuplex(s) ==
  IF ~SanityCheck(s) THEN Raise(s, "AssertionError")
  ELSE IF s.paused \/ s.backtracked
  THEN LET s1 == [s EXCEPT !.paused = FALSE, !.backtracked = TRUE]
           s2 == [s1 EXCEPT !.iplus1_site = @ - 1, !.scrunched_DNA_size = @ - 1]
           s4 == IF s2.free_5prime_RNA_length > 0
                 THEN [s2 EXCEPT !.free_5prime_RNA_length = @ - 1]
                 ELSE s2
       IN Closing(s4)
  ELSE Raise(s, "ZeroDivisionError")

\* Backtrack that shortens the duplex only strictly below the maximum
Backtrack_StrictlyBelowMax(s) ==
  IF ~SanityCheck(s) THEN Raise(s, "AssertionError")
  ELSE IF s.paused \/ s.backtracked
  THEN LET s1 == [s EXCEPT !.paused = FALSE, !.backtracked = TRUE]
           s2 == [s1 EXCEPT !.iplus1_site = @ - 1, !.scrunched_DNA_size = @ - 1]
           s3 == IF s2.RNADNA_duplex_length < s2.max_duplex_length
                 THEN [s2 EXCEPT !.RNADNA_duplex_length = @ - 1]
                 ELSE s2
           s4 == IF s3.free_5prime_RNA_length > 0
                 THEN [s3 EXCEPT !.free_5prime_RNA_length = @ - 1]
                 ELSE s3
       IN Closing(s4)
  ELSE Raise(s, "ZeroDivisionError")

\* Backtrack that leaves the scrunched DNA as it is
Backtrack_KeepsScrunch(s) ==
  IF ~SanityCheck(s) THEN Raise(s, "AssertionError")
  ELSE IF s.paused \/ s.backtracked
  THEN LET s1 == [s EXCEPT !.paused = FALSE, !.backtracked = TRUE]
           s2 == [s1 EXCEPT !.iplus1_site = @ - 1]
           s3 == IF s2.RNADNA_duplex_length <= s2.max_duplex_length
                 THEN [s2 EXCEPT !.RNADNA_duplex_length = @ - 1]
                 ELSE s2
           s4 == IF s3.free_5prime_RNA_length > 0
                 THEN [s3 EXCEPT !.free_5prime_RNA_length = @ - 1]
                 ELSE s3
       IN Closing(s4)
  ELSE Raise(s, "ZeroDivisionError")

Backtrack(s) ==
  IF ~SanityCheck(s) THEN Raise(s, "AssertionError")
  ELSE LET c == CanBackTrack(s) IN
    IF c.outcome # "completed" THEN Raise(s, c.outcome)
    ELSE IF c.ret = "True"
    THEN LET s1 == IF s.paused
                   THEN [s EXCEPT !.paused = FALSE, !.backtracked = TRUE]
                   ELSE s
             s2 == [s1 EXCEPT !.iplus1_site = @ - 1, !.scrunched_DNA_size = @ - 1]
             s3 == IF s2.RNADNA_duplex_length <= s2.max_duplex_length
                   THEN [s2 EXCEPT !.RNADNA_duplex_length = @ - 1]
                   ELSE s2
             s4 == IF s3.free_5prime_RNA_length > 0
                   THEN [s3 EXCEPT !.free_5prime_RNA_length = @ - 1]
                   ELSE s3
         IN Closing(s4)
    ELSE Raise(s, "ZeroDivisionError")

\* CanGrow that allows growth in the post-translocated register only
CanGrow_PostOnly(s) == Return(s, PyBool(s.post_translocated))

\* CanGrow that moves the object to the post-translocated register
CanGrow_Translocates(s) ==
  Return([s EXCEPT !.pre_translocated = FALSE, !.post_translocated = TRUE], "True")

CanGrow(s) ==
  LET excluded_from_growing == s.pre_translocated /\ s.backtracked /\ s.paused
  IN IF excluded_from_growing /\ s.post_translocated
     THEN Return(s, "False")
     ELSE Return(s, "True")

\* GrowRNA that grows the duplex with the RNA whatever its length
GrowRNA_NoCap(s) ==
  IF ~SanityCheck(s) THEN Raise(s, "AssertionError")
  ELSE IF CanGrow(s).ret = "True"
  THEN LET s1 == [s EXCEPT !.iplus1_site = @ + 1,
                           !.RNA_length = @ + 1,
                           !.scrunched_DNA_size = @ + 1]
           s2 == [s1 EXCEPT !.RNADNA_duplex_length = s1.RNA_length]
           s3 == IF s2.RNADNA_duplex_length = s2.max_duplex_length
                 THEN [s2 EXCEPT !.free_5prime_RNA_length = @ + 1]
                 ELSE s2
       IN Closing(s3)
  ELSE Raise(s, "ZeroDivisionError")

GrowRNA(s) ==
  IF ~SanityCheck(s) THEN Raise(s, "AssertionError")
  ELSE IF CanGrow(s).ret = "True"
  THEN LET s1 == [s EXCEPT !.iplus1_site = @ + 1,
                           !.RNA_length = @ + 1,
                           !.scrunched_DNA_size = @ + 1]
           s2 == IF s1.RNA_length <= s1.max_duplex_length
                 THEN [s1 EXCEPT !.RNADNA_duplex_length = s1.RNA_length]
                 ELSE s1
           s3 == IF s2.RNADNA_duplex_length = s2.max_duplex_length
                 THEN [s2 EXCEPT !.free_5prime_RNA_length = @ + 1]
                 ELSE s2
       IN Closing(s3)
  ELSE Raise(s, "ZeroDivisionError")

\* ---- the state machine: one call per step ----
NoCall == [op |-> "none", outcome |-> "none", before |-> DefaultState]

\* __init__ returns an object only when its SanityCheck passes
Constructed(a) ==
  /\ SanityCheck(a)
  /\ myRNAP = a
  /\ op = "__init__"
  /\ outcome = "completed"
  /\ ret = "None"
  /\ before = a
  /\ prev = NoCall
  /\ arg = NoArg
  /\ grown = FALSE

Init == \E a \in ConstructorArgs : Constructed(a)

InitDefault == Constructed(DefaultState)

CallWith(name, its, r) ==
  /\ myRNAP' = r.self
  /\ op' = name
  /\ outcome' = r.outcome
  /\ ret' = r.ret
  /\ before' = myRNAP
  /\ prev' = [op |-> op, outcome |-> outcome, before |-> before]
  /\ arg' = its
  /\ grown' = (grown \/ name = "GrowRNA")

Call(name, r) == CallWith(name, NoArg, r)

DoSanityCheck == Call("SanityCheck", Closing(myRNAP))

DoGetActiveSiteDinucleotide ==
  \E its \in ItsInputs :
    CallWith("GetActiveSiteDinucleotide", its, GetActiveSiteDinucleotide(myRNAP, its))

DoGetActiveSiteNucleotide ==
  \E its \in ItsInputs :
    CallWith("GetActiveSiteNucleotide", its, GetActiveSiteNucleotide(myRNAP, its))

DoReverseTranslocate == Call("ReverseTranslocate", ReverseTranslocate(myRNAP))

DoTranslocate == Call("Translocate", Translocate(myRNAP))

DoPause == Call("Pause", Pause(myRNAP))

DoCanBackTrack == Call("CanBackTrack", CanBackTrack(myRNAP))

DoBacktrack ==
  /\ myRNAP.iplus1_site > -MaxBacktrack
  /\ Call("Backtrack", Backtrack(myRNAP))

DoCanGrow == Call("CanGrow", CanGrow(myRNAP))

DoGrowRNA ==
  /\ myRNAP.RNA_length < MaxRNA
  /\ Call("GrowRNA", GrowRNA(myRNAP))

Next ==
  \/ DoSanityCheck
  \/ DoGetActiveSiteDinucleotide
  \/ DoGetActiveSiteNucleotide
  \/ DoReverseTranslocate
  \/ DoTranslocate
  \/ DoPause
  \/ DoCanBackTrack
  \/ DoBacktrack
  \/ DoCanGrow
  \/ DoGrowRNA

Spec == Init /\ [][Next]_vars

SpecDefault == InitDefault /\ [][Next]_vars

\* the calls of the __main__ block, each on the object the one before left
MainScenario ==
  LET r1 == GrowRNA(DefaultState)
      r2 == Translocate(r1.self)
      r3 == ReverseTranslocate(r2.self)
      r4 == Pause(r3.self)
      r5 == Backtrack(r4.self)
  IN <<r1, r2, r3, r4, r5>>

\* ---- vocabulary of the properties ----
TransitionNames == {"Translocate", "ReverseTranslocate", "Pause", "Backtrack", "GrowRNA"}

\* the four modes, of an object that passes SanityCheck
IsPre(s) == SanityCheck(s) /\ s.pre_translocated
IsPost(s) == SanityCheck(s) /\ s.post_translocated
IsPaused(s) == SanityCheck(s) /\ s.paused
IsBacktracked(s) == SanityCheck(s) /\ s.backtracked

ModeCount(s) ==
  (IF s.pre_translocated THEN 1 ELSE 0) + (IF s.post_translocated THEN 1 ELSE 0)
  + (IF s.paused THEN 1 ELSE 0) + (IF s.backtracked THEN 1 ELSE 0)

\* the precondition under which the specification calls a transition legal
Legal(name, b) ==
  CASE name = "Translocate" -> b.pre_translocated
    [] name = "ReverseTranslocate" -> ~b.pre_translocated
    [] name = "Pause" -> b.pre_translocated
    [] name = "Backtrack" -> CanBackTrack(b).ret = "True"
    [] name = "GrowRNA" -> CanGrow(b).ret = "True"
    [] OTHER -> FALSE

\* the object after k GrowRNA calls in a row
RECURSIVE GrowTimes(_, _)
GrowTimes(s, k) == IF k = 0 THEN s ELSE GrowRNA(GrowTimes(s, k - 1)).self

Completed == outcome = "completed"

\* C1: after every legal transition called on an object that satisfies the
\* six invariants, the call completes and the six invariants still hold.
C1_InvariantPreservation ==
  (op \in TransitionNames /\ SanityCheck(before) /\ Legal(op, before))
    => (Completed /\ SanityCheck(myRNAP))

\* C2: from the default object, every GrowRNA call of a run of GrowRNA calls
\* completes; the call that first brings the duplex to max_duplex_length sets
\* the free 5' length to 1, and from then on the duplex stays at the maximum,
\* the free 5' length grows by 1 per call and equals RNA_length - maximum.
C2_Saturation ==
  (op = "GrowRNA" /\ \E k \in 0..MaxRNA : before = GrowTimes(DefaultState, k))
    => /\ Completed
       /\ (before.RNADNA_duplex_length < before.max_duplex_length
             /\ myRNAP.RNADNA_duplex_length = myRNAP.max_duplex_length)
            => myRNAP.free_5prime_RNA_length = 1
       /\ before.RNADNA_duplex_length = before.max_duplex_length
            => myRNAP.RNADNA_duplex_length = myRNAP.max_duplex_length
       /\ myRNAP.RNADNA_duplex_length = myRNAP.max_duplex_length
            => /\ myRNAP.free_5prime_RNA_length = before.free_5prime_RNA_length + 1
               /\ myRNAP.free_5prime_RNA_length
                    = myRNAP.RNA_length - myRNAP.max_duplex_length

\* C3: every object that passes SanityCheck (constructed, or left by a call
\* that completed) has exactly one of the four mode flags set.
C3_FourWayMode == SanityCheck(myRNAP) => ModeCount(myRNAP) = 1

\* C4: every transition call either completes with the invariants holding or
\* raises with every field as it was before the call.
C4_FailureAtomicity ==
  op \in TransitionNames
    => \/ Completed /\ SanityCheck(myRNAP)
       \/ ~Completed /\ myRNAP = before

\* C5: ReverseTranslocate, called on an object that passes SanityCheck,
\* raises exactly when the object is Pre-translocated; otherwise it completes
\* and leaves the object Pre-translocated with the invariants holding.
C5_ReverseTranslocateLegal ==
  (op = "ReverseTranslocate" /\ SanityCheck(before))
    => IF before.pre_translocated
       THEN ~Completed
       ELSE /\ Completed
            /\ myRNAP.pre_translocated /\ ~myRNAP.post_translocated
            /\ SanityCheck(myRNAP)

\* C6: Translocate completes only from a Pre-translocated object, and then
\* clears pre_translocated and sets post_translocated; from a Post-translocated,
\* Paused or Backtracked object it raises; the second of two Translocate calls
\* in a row raises and changes no field.
C6_TranslocateOnlyFromPre ==
  op = "Translocate"
    => /\ Completed => /\ IsPre(before)
                       /\ ~myRNAP.pre_translocated /\ myRNAP.post_translocated
       /\ (IsPost(before) \/ IsPaused(before) \/ IsBacktracked(before)) => ~Completed
       /\ prev.op = "Translocate" => (~Completed /\ myRNAP = before)

\* C7: Pause completes if and only if the object is Pre-translocated, and then
\* clears pre_translocated and sets paused; in every other state it raises and
\* changes no field.
C7_PauseIffPre ==
  op = "Pause"
    => /\ Completed <=> IsPre(before)
       /\ Completed => (~myRNAP.pre_translocated /\ myRNAP.paused
                          /\ myRNAP = [before EXCEPT !.pre_translocated = FALSE,
                                                     !.paused = TRUE])
       /\ ~IsPre(before) => myRNAP = before

C7_Witness ==
  /\ op = "Pause" /\ Completed /\ IsPre(before) /\ IsPaused(myRNAP)
  /\ prev.op = "ReverseTranslocate" /\ prev.outcome = "completed" /\ IsPost(prev.before)

\* C8: CanBackTrack returns true exactly when the object is Paused or
\* Backtracked and false in the other modes, and Backtrack called on a Pre- or
\* Post-translocated object raises without changing any field.
C8_CanBackTrack ==
  /\ op = "CanBackTrack"
       => /\ ret = "True" <=> (IsPaused(before) \/ IsBacktracked(before))
          /\ SanityCheck(before) => (Completed /\ ret \in {"True", "False"})
  /\ (op = "Backtrack" /\ (IsPre(before) \/ IsPost(before)))
       => (~Completed /\ myRNAP = before)

C8_Witness ==
  /\ op = "Backtrack" /\ IsPost(before) /\ outcome = "ZeroDivisionError"
  /\ prev.op = "CanBackTrack" /\ prev.outcome = "completed"

\* C9: from any Pre-translocated object that passes SanityCheck, Translocate
\* followed at once by ReverseTranslocate both complete and every field is
\* again what it was before the Translocate.
C9_RoundTrip ==
  (op = "ReverseTranslocate" /\ prev.op = "Translocate" /\ IsPre(prev.before))
    => /\ prev.outcome = "completed"
       /\ IsPost(before)
       /\ Completed
       /\ myRNAP = prev.before

C9_Witness ==
  /\ op = "ReverseTranslocate" /\ prev.op = "Translocate" /\ IsPre(prev.before)
  /\ Completed /\ IsPre(myRNAP)
  /\ myRNAP.RNA_length > DefaultRNALength

C11_BacktrackUndoesGrowth ==
  /\ (op = "Backtrack" /\ prev.op = "Pause" /\ prev.outcome = "completed" /\ grown
        /\ before.RNADNA_duplex_length < before.max_duplex_length)
       => /\ Completed
          /\ IsPaused(before) /\ IsBacktracked(myRNAP)
          /\ myRNAP = [before EXCEPT !.paused = FALSE, !.backtracked = TRUE,
                                     !.iplus1_site = @ - 1,
                                     !.scrunched_DNA_size = @ - 1,
                                     !.RNADNA_duplex_length = @ - 1]
  /\ \A i \in 1..5 : MainScenario[i].outcome = "completed"
  /\ (op = "Backtrack" /\ before = MainScenario[4].self)
       => /\ Completed
          /\ myRNAP = MainScenario[5].self
          /\ IsBacktracked(myRNAP)
          /\ myRNAP.RNA_length = 3 /\ myRNAP.iplus1_site = 2
          /\ myRNAP.scrunched_DNA_size = 0 /\ myRNAP.RNADNA_duplex_length = 2

C11_Witness ==
  /\ op = "Backtrack" /\ prev.op = "Pause" /\ prev.outcome = "completed" /\ grown
  /\ before = MainScenario[4].self
  /\ Completed /\ myRNAP.backtracked

C13_ActiveSiteNucleotide ==
  (op = "GetActiveSiteNucleotide" /\ before.iplus1_site >= 1
     /\ Len(arg) >= before.iplus1_site + 1)
    => /\ Completed
       /\ ret = arg[before.iplus1_site + 1]
       /\ GetActiveSiteDinucleotide(before, arg).ret
            = arg[before.iplus1_site] \o ret

\* C14: GetActiveSiteDinucleotide either returns the characters at positions
\* iplus1_site - 1 and iplus1_site counted from the start of the sequence or
\* raises IndexError; it never returns a character of a position counted from
\* the end.
C14_DinucleotideRangeSafety ==
  op = "GetActiveSiteDinucleotide"
    => \/ outcome = "IndexError"
       \/ /\ Completed
          /\ before.iplus1_site - 1 >= 0
          /\ before.iplus1_site < Len(arg)
          /\ ret = arg[before.iplus1_site] \o arg[before.iplus1_site + 1]

\* C15: in every state left by the constructor or by a call that completed,
\* the duplex length, the scrunched DNA size and the free 5' length are >= 0.
C15_NonNegativeCounters ==
  SanityCheck(myRNAP)
    => /\ myRNAP.RNADNA_duplex_length >= 0
       /\ myRNAP.scrunched_DNA_size >= 0
       /\ myRNAP.free_5prime_RNA_length >= 0

\* the objects one completing transition away from s
Successors(s) ==
  {r.self : r \in {x \in ({Translocate(s), ReverseTranslocate(s), Pause(s)}
                            \cup (IF s.iplus1_site > -MaxBacktrack
                                  THEN {Backtrack(s)} ELSE {})
                            \cup (IF s.RNA_length < MaxRNA
                                  THEN {GrowRNA(s)} ELSE {})) :
                     x.outcome = "completed"}}

\* the objects any number of completing transitions away from those of frontier
RECURSIVE Reach(_, _)
Reach(seen, frontier) ==
  IF frontier = {} THEN seen
  ELSE LET new == (UNION {Successors(s) : s \in frontier}) \ seen
       IN Reach(seen \cup new, new)

\* C16: from every state left by the constructor or by a call that completed,
\* some sequence of completing transitions leads to a Pre-translocated state.
C16_NoAbsorbingMode ==
  SanityCheck(myRNAP)
    => \E t \in Reach({myRNAP}, {myRNAP}) : IsPre(t)

C18_QueriesPure ==
  op \in {"SanityCheck", "CanBackTrack", "CanGrow"} => myRNAP = before

C18_Witness ==
  /\ op = "CanBackTrack" /\ outcome = "AssertionError" /\ ModeCount(before) = 2
  /\ prev.op = "SanityCheck" /\ prev.outcome = "AssertionError"

\* iplus1_site - scrunched_DNA_size
Offset(s) == s.iplus1_site - s.scrunched_DNA_size

\* C19: no call changes iplus1_site - scrunched_DNA_size, and the default
\* construction starts it at 2.
C19_ConstantOffset ==
  /\ Offset(DefaultState) = 2
  /\ Offset(myRNAP) = Offset(before)

C19_Witness ==
  /\ op = "Backtrack" /\ Completed /\ prev.op = "GrowRNA" /\ prev.outcome = "completed"
  /\ myRNAP.iplus1_site = before.iplus1_site - 1
  /\ Offset(myRNAP) = 3

\* C20: Translocate, ReverseTranslocate and Pause leave RNA_length,
\* iplus1_site, the duplex length, the scrunched size and the free 5' length
\* as they were; GrowRNA leaves the four mode flags as they were; no call
\* changes max_duplex_length and no call lowers RNA_length.
C20_Frames ==
  /\ op \in {"Translocate", "ReverseTranslocate", "Pause"}
       => /\ myRNAP.RNA_length = before.RNA_length
          /\ myRNAP.iplus1_site = before.iplus1_site
          /\ myRNAP.RNADNA_duplex_length = before.RNADNA_duplex_length
          /\ myRNAP.scrunched_DNA_size = before.scrunched_DNA_size
          /\ myRNAP.free_5prime_RNA_length = before.free_5prime_RNA_length
  /\ op = "GrowRNA"
       => /\ myRNAP.pre_translocated = before.pre_translocated
          /\ myRNAP.post_translocated = before.post_translocated
          /\ myRNAP.paused = before.paused
          /\ myRNAP.backtracked = before.backtracked
  /\ myRNAP.max_duplex_length = before.max_duplex_length
  /\ myRNAP.RNA_length >= before.RNA_length
  /\ op # "GrowRNA" => myRNAP.RNA_length = before.RNA_length

C20_Witness ==
  /\ op = "ReverseTranslocate" /\ Completed /\ IsPost(before)
  /\ prev.op = "GrowRNA" /\ prev.outcome = "completed"
  /\ myRNAP.RNA_length > DefaultRNALength

====
